---- MODULE Spec2Model ----
(***************************************************************************)
(* Coachly: the exercise-technique scoring engine (lib/techniqueAnalysis). *)
(*                                                                         *)
(* Units.  A confidence and a score multiplier are integers in hundredths  *)
(* (0.5 is 50, 0.3 is 30).  A final score is an integer in ten-thousandths *)
(* (1.0 is 10000, 0.8 * 0.3 is 2400).  Coordinates are integer pixels.     *)
(* Arithmetic is exact decimal arithmetic; an IEEE NaN (0/0) is the value  *)
(* NaN, for which every comparison is false.                               *)
(***************************************************************************)
EXTENDS Integers, Sequences, FiniteSets, TLC

VARIABLES
    keypoints,      \* the KeypointData[] handed to analyzeTechnique
    exerciseType,   \* "squat" | "bench" | "deadlift" | "omitted"
    result,         \* the TechniqueAnalysisResult of the call, or NoResult
    pc,             \* "idle" before the call, "done" after it
    response,       \* the RoboflowResponse handed to processRoboflowResponse
    posture,        \* the PostureAnalysisResult of that call, or NoResult
    feedback,       \* what getExerciseSpecificFeedback returned, or NoResult
    isStreamActive, \* PostureCamera state
    isAnalyzing,    \* PostureCamera state
    analysisResultState, \* PostureCamera state analysisResult, or NoAnalysis
    error,          \* PostureCamera state: a message, or NoError
    autoAnalyze,    \* PostureCamera state
    rendered,       \* the state values of the last commit (handlers, buttons)
    interval,       \* the auto-analyze interval of the last commit
    inFlight,       \* the analyzePosture calls that have not settled
    cameraRequested, \* a getUserMedia call has not settled
    analysisHistory, \* Home state
    delivered       \* every result handed to handleAnalysisResult, in order

vars ==
    <<keypoints, exerciseType, result, pc, response, posture, feedback,
      isStreamActive, isAnalyzing, analysisResultState, error, autoAnalyze, rendered,
      interval, inFlight, cameraRequested, analysisHistory, delivered>>

----------------------------------------------------------------------------
(* Values *)

Undefined == [undefined |-> TRUE]
NaN == [nan |-> TRUE]
NoResult == [none |-> TRUE]
Omitted == "omitted"
ExerciseTypes == {"squat", "bench", "deadlift"}

Abs(n) == IF n < 0 THEN -n ELSE n
Max(a, b) == IF a >= b THEN a ELSE b

KeypointData(cls, conf, p) ==
    [class |-> cls, confidence |-> conf, x |-> p[1], y |-> p[2]]

\* String.prototype.startsWith
startsWith(s, prefix) ==
    Len(s) >= Len(prefix) /\ SubSeq(s, 1, Len(prefix)) = prefix

\* Array.prototype.find on the class name: the first match, or undefined
RECURSIVE find(_, _)
find(kps, cls) ==
    IF kps = <<>> THEN Undefined
    ELSE IF Head(kps).class = cls THEN Head(kps)
    ELSE find(Tail(kps), cls)

\* reduce((sum, kp) => sum + kp.confidence, 0)
RECURSIVE sumConfidence(_)
sumConfidence(kps) ==
    IF kps = <<>> THEN 0 ELSE Head(kps).confidence + sumConfidence(Tail(kps))

----------------------------------------------------------------------------
(* determineSideProfile *)

sideThreshold == 20

\* keypoints.filter(kp => kp.class.startsWith(...)): filter is SelectSeq
leftSideKeypoints(kps) == SelectSeq(kps, LAMBDA kp : startsWith(kp.class, "left_"))
rightSideKeypoints(kps) == SelectSeq(kps, LAMBDA kp : startsWith(kp.class, "right_"))

\* sum / length as an exact fraction; 0 / 0 is NaN
avgConfidence(part) ==
    IF Len(part) = 0 THEN NaN
    ELSE [num |-> sumConfidence(part), den |-> Len(part)]

\* leftAvgConfidence - rightAvgConfidence, the Math.abs forgotten
confidenceDiff_Signed(l, r) ==
    IF l = NaN \/ r = NaN THEN NaN
    ELSE [num |-> l.num * r.den - r.num * l.den, den |-> l.den * r.den]

\* Math.abs(leftAvgConfidence - rightAvgConfidence); NaN if either is NaN
confidenceDiff(l, r) ==
    IF l = NaN \/ r = NaN THEN NaN
    ELSE [num |-> Abs(l.num * r.den - r.num * l.den), den |-> l.den * r.den]

\* confidenceDiff >= 0.2
diffExceeds_Inclusive(d) == d # NaN /\ d.num >= sideThreshold * d.den

\* confidenceDiff > 0.2 (false for NaN)
diffExceeds(d) == d # NaN /\ d.num > sideThreshold * d.den

\* leftAvgConfidence > rightAvgConfidence (false for NaN)
avgGreater(l, r) == l # NaN /\ r # NaN /\ l.num * r.den > r.num * l.den

determineSideProfile(kps) ==
    LET l == avgConfidence(leftSideKeypoints(kps))
        r == avgConfidence(rightSideKeypoints(kps))
    IN  IF diffExceeds(confidenceDiff(l, r))
        THEN (IF avgGreater(l, r) THEN "left" ELSE "right")
        ELSE "unknown"

----------------------------------------------------------------------------
(* calculateAngle *)

\* The angle at p2 between the rays p2->p1 and p2->p3 is atan2(cross, dot)
\* in [0, 180]; it is NaN when a ray has zero length (0 / 0 in the cosine).
\* the angle taken at p1 instead of at the vertex p2
calculateAngle_VertexFirst(p1, p2, p3) ==
    LET v1x == p2.x - p1.x
        v1y == p2.y - p1.y
        v2x == p3.x - p1.x
        v2y == p3.y - p1.y
    IN  IF (v1x = 0 /\ v1y = 0) \/ (v2x = 0 /\ v2y = 0) THEN NaN
        ELSE [dot |-> v1x * v2x + v1y * v2y,
              cross |-> Abs(v1x * v2y - v1y * v2x)]

calculateAngle(p1, p2, p3) ==
    LET v1x == p1.x - p2.x
        v1y == p1.y - p2.y
        v2x == p3.x - p2.x
        v2y == p3.y - p2.y
    IN  IF (v1x = 0 /\ v1y = 0) \/ (v2x = 0 /\ v2y = 0) THEN NaN
        ELSE [dot |-> v1x * v2x + v1y * v2y,
              cross |-> Abs(v1x * v2y - v1y * v2x)]

\* 1000 * tan(deg), truncated, for the acute reference angles of the checks
TanMilli(deg) ==
    CASE deg = 15 -> 267
      [] deg = 20 -> 363
      [] deg = 40 -> 839
      [] deg = 45 -> 1000
      [] deg = 60 -> 1732
      [] deg = 70 -> 2747
      [] deg = 80 -> 5671

\* angle > deg
angleGreater(a, deg) ==
    /\ a # NaN
    /\ IF deg < 90
       THEN a.dot <= 0 \/ a.cross * 1000 > TanMilli(deg) * a.dot
       ELSE a.dot < 0 /\ a.cross * 1000 <= TanMilli(180 - deg) * (-a.dot)

\* angle < deg (deg < 90 in every use)
angleLess(a, deg) ==
    /\ a # NaN
    /\ a.dot > 0
    /\ (IF deg = 45 THEN a.cross < a.dot
        ELSE a.cross * 1000 <= TanMilli(deg) * a.dot)

----------------------------------------------------------------------------
(* The exercise engines *)

\* const side = sideProfile === 'right' ? 'right' : 'left'
selectedSide_DefaultLeft(sideProfile) == IF sideProfile = "right" THEN "right" ELSE "left"

\* const side = sideProfile === 'left' ? 'left' : 'right'
selectedSide(sideProfile) == IF sideProfile = "left" THEN "left" ELSE "right"

\* `${side}_ankle`
sideClass(side, joint) == side \o "_" \o joint

gateThreshold == 50

\* !kp || kp.confidence < 0.3
notVisible_Lenient(kp) == kp = Undefined \/ kp.confidence < 30

\* !kp || kp.confidence < 0.5
notVisible(kp) == kp = Undefined \/ kp.confidence < gateThreshold

gateMultiplier == 30
multiplierFloor == 10

\* scoreMultiplier returned as accumulated
floorMultiplier_None(m) == m

\* Math.max(0.1, scoreMultiplier)
\* Math.max(0, scoreMultiplier): the floor of the score used for the multiplier
floorMultiplier_AtZero(m) == Max(0, m)

floorMultiplier(m) == Max(multiplierFloor, m)

\* One check: its issue and its penalty when it triggers
check(triggered, issue, penalty) ==
    IF triggered THEN [issues |-> <<issue>>, penalty |-> penalty]
    ELSE [issues |-> <<>>, penalty |-> 0]

\* each penalty taken as a factor: scoreMultiplier *= 1 - penalty
RECURSIVE runChecks_Multiplicative(_)
runChecks_Multiplicative(cs) ==
    IF cs = <<>> THEN [issues |-> <<>>, scoreMultiplier |-> 100]
    ELSE LET rest == runChecks_Multiplicative(SubSeq(cs, 1, Len(cs) - 1))
             last == cs[Len(cs)]
         IN  [issues |-> rest.issues \o last.issues,
              scoreMultiplier |-> (rest.scoreMultiplier * (100 - last.penalty)) \div 100]

\* The checks of one engine in their order: issues pushed, penalties subtracted
RECURSIVE runChecks(_)
runChecks(cs) ==
    IF cs = <<>> THEN [issues |-> <<>>, scoreMultiplier |-> 100]
    ELSE LET rest == runChecks(SubSeq(cs, 1, Len(cs) - 1))
             last == cs[Len(cs)]
         IN  [issues |-> rest.issues \o last.issues,
              scoreMultiplier |-> rest.scoreMultiplier - last.penalty]

point(px, py) == [x |-> px, y |-> py]

SquatGateIssue == "Cannot analyze squat form - key body parts not visible"
SquatToes == "Weight may be shifting to toes - focus on keeping heels down"
SquatKnees == "Knees are tracking too far forward - sit back more into the squat"
SquatChest == "Chest is collapsing forward - keep your torso more upright"
SquatDepth == "Try to squat deeper - aim for thighs parallel to the ground"
SquatWink == "Excessive hip flexion detected - avoid excessive 'butt wink'"
SquatHead == "Maintain neutral head position - avoid looking too far up or down"

\* the knees-forward check written before the weight-on-toes check
squatChecks_Reordered(ankle, knee, hip, shoulder, nose) ==
    runChecks(<<
        check(knee.x > ankle.x + 80, SquatKnees, 20),
        check(Abs(knee.x - ankle.x) > 60, SquatToes, 25),
        check(angleGreater(calculateAngle(point(hip.x, hip.y - 100), hip, shoulder), 45),
              SquatChest, 30),
        check(angleGreater(calculateAngle(ankle, knee, hip), 140), SquatDepth, 10),
        check(angleLess(calculateAngle(knee, hip, shoulder), 70), SquatWink, 15),
        check(nose # Undefined /\ Abs(nose.y - shoulder.y) > 100, SquatHead, 10)
    >>)

\* the coordinate checks with >= in place of >
squatChecks_Inclusive(ankle, knee, hip, shoulder, nose) ==
    runChecks(<<
        check(Abs(knee.x - ankle.x) >= 60, SquatToes, 25),
        check(knee.x >= ankle.x + 80, SquatKnees, 20),
        check(angleGreater(calculateAngle(point(hip.x, hip.y - 100), hip, shoulder), 45),
              SquatChest, 30),
        check(angleGreater(calculateAngle(ankle, knee, hip), 140), SquatDepth, 10),
        check(angleLess(calculateAngle(knee, hip, shoulder), 70), SquatWink, 15),
        check(nose # Undefined /\ Abs(nose.y - shoulder.y) >= 100, SquatHead, 10)
    >>)

\* the first check on the knee behind the ankle only
squatChecks_HeelSide(ankle, knee, hip, shoulder, nose) ==
    runChecks(<<
        check(ankle.x - knee.x > 60, SquatToes, 25),
        check(knee.x > ankle.x + 80, SquatKnees, 20),
        check(angleGreater(calculateAngle(point(hip.x, hip.y - 100), hip, shoulder), 45),
              SquatChest, 30),
        check(angleGreater(calculateAngle(ankle, knee, hip), 140), SquatDepth, 10),
        check(angleLess(calculateAngle(knee, hip, shoulder), 70), SquatWink, 15),
        check(nose # Undefined /\ Abs(nose.y - shoulder.y) > 100, SquatHead, 10)
    >>)

squatChecks(ankle, knee, hip, shoulder, nose) ==
    runChecks(<<
        check(Abs(knee.x - ankle.x) > 60, SquatToes, 25),
        check(knee.x > ankle.x + 80, SquatKnees, 20),
        check(angleGreater(calculateAngle(point(hip.x, hip.y - 100), hip, shoulder), 45),
              SquatChest, 30),
        check(angleGreater(calculateAngle(ankle, knee, hip), 140), SquatDepth, 10),
        check(angleLess(calculateAngle(knee, hip, shoulder), 70), SquatWink, 15),
        check(nose # Undefined /\ Abs(nose.y - shoulder.y) > 100, SquatHead, 10)
    >>)

analyzeSquatTechnique(kps, sideProfile) ==
    LET side == selectedSide(sideProfile)
        ankle == find(kps, sideClass(side, "ankle"))
        knee == find(kps, sideClass(side, "knee"))
        hip == find(kps, sideClass(side, "hip"))
        shoulder == find(kps, sideClass(side, "shoulder"))
        nose == find(kps, "nose")
    IN  IF notVisible(ankle) \/ notVisible(knee) \/ notVisible(hip) \/ notVisible(shoulder)
        THEN [issues |-> <<SquatGateIssue>>, scoreMultiplier |-> gateMultiplier]
        ELSE LET r == squatChecks(ankle, knee, hip, shoulder, nose)
             IN  [issues |-> r.issues,
                  scoreMultiplier |-> floorMultiplier(r.scoreMultiplier)]

DeadliftGateIssue == "Cannot analyze deadlift form - key body parts not visible"
DeadliftBar == "Bar appears too far from your body - keep it close to your shins"
DeadliftHipsHigh == "Hips may be too high - lower them to engage your legs more"
DeadliftHipsLow == "Hips may be too low - this isn't a squat, raise them slightly"
DeadliftSpine == "Spine appears rounded - keep your chest up and shoulders back"
DeadliftKnees == "Knees appear locked - maintain slight bend to engage leg muscles"
DeadliftLookUp == "Avoid looking up excessively - maintain neutral neck position"
DeadliftLookDown == "Avoid looking down - keep your head in neutral position"

\* (hip.y - knee.y) / (knee.y - ankle.y) as numerator and denominator
hipKneeRatio(ankle, knee, hip) == [num |-> hip.y - knee.y, den |-> knee.y - ankle.y]

\* ratio > tenths / 10 with a guard: no issue when the denominator is 0
ratioGreater_Guarded(r, tenths) ==
    IF r.den > 0 THEN r.num * 10 > tenths * r.den
    ELSE IF r.den < 0 THEN r.num * 10 < tenths * r.den
    ELSE FALSE

\* ratio > tenths / 10 cross-multiplied as if the denominator were positive
ratioGreater_Unsigned(r, tenths) == r.num * 10 > tenths * r.den

\* ratio > tenths / 10: x / 0 is +Infinity, -Infinity or NaN by the sign of x
ratioGreater(r, tenths) ==
    IF r.den > 0 THEN r.num * 10 > tenths * r.den
    ELSE IF r.den < 0 THEN r.num * 10 < tenths * r.den
    ELSE r.num > 0

\* ratio < tenths / 10 with a division by zero taken as below every bound
ratioLess_ZeroBelow(r, tenths) ==
    IF r.den > 0 THEN r.num * 10 < tenths * r.den
    ELSE IF r.den < 0 THEN r.num * 10 > tenths * r.den
    ELSE TRUE

\* ratio < tenths / 10
ratioLess(r, tenths) ==
    IF r.den > 0 THEN r.num * 10 < tenths * r.den
    ELSE IF r.den < 0 THEN r.num * 10 > tenths * r.den
    ELSE r.num < 0

deadliftChecks(ankle, knee, hip, shoulder, nose) ==
    LET ratio == hipKneeRatio(ankle, knee, hip)
        neckAngle == calculateAngle(shoulder, nose, point(nose.x, nose.y - 50))
    IN  runChecks(<<
            check(shoulder.x < ankle.x - 30, DeadliftBar, 30),
            check(ratioGreater(ratio, 25), DeadliftHipsHigh, 20),
            check(ratioLess(ratio, 8), DeadliftHipsLow, 20),
            check(angleGreater(calculateAngle(point(shoulder.x, shoulder.y - 100),
                                              shoulder, hip), 60),
                  DeadliftSpine, 40),
            check(angleGreater(calculateAngle(ankle, knee, hip), 160), DeadliftKnees, 15),
            check(nose # Undefined /\ angleGreater(neckAngle, 45), DeadliftLookUp, 10),
            check(nose # Undefined /\ angleLess(neckAngle, 15), DeadliftLookDown, 10)
        >>)

analyzeDeadliftTechnique(kps, sideProfile) ==
    LET side == selectedSide(sideProfile)
        ankle == find(kps, sideClass(side, "ankle"))
        knee == find(kps, sideClass(side, "knee"))
        hip == find(kps, sideClass(side, "hip"))
        shoulder == find(kps, sideClass(side, "shoulder"))
        nose == find(kps, "nose")
    IN  IF notVisible(ankle) \/ notVisible(knee) \/ notVisible(hip) \/ notVisible(shoulder)
        THEN [issues |-> <<DeadliftGateIssue>>, scoreMultiplier |-> gateMultiplier]
        ELSE LET r == deadliftChecks(ankle, knee, hip, shoulder, nose)
             IN  [issues |-> r.issues,
                  scoreMultiplier |-> floorMultiplier(r.scoreMultiplier)]

BenchGateIssue == "Cannot analyze bench form - arm positions not clearly visible"
BenchShrug == "Shoulders may be shrugged up - retract and depress shoulder blades"
BenchWide == "Elbows flared too wide - bring them closer to your body"
BenchTight == "Elbows tucked too tight - allow for slight flare"
BenchWrist == "Wrist alignment could be improved - keep wrists straight and stacked"
BenchBarPath == "Bar path may be too far toward your face - aim for lower chest"
BenchArch == "Excessive back arch detected - maintain moderate natural arch"
BenchHead == "Keep your head on the bench - avoid lifting it during the press"

\* the head check taken as failed when there is no nose
benchChecks_NoseAssumed(shoulder, elbow, wrist, hip, nose) ==
    LET elbowShoulderAngle == calculateAngle(wrist, elbow, shoulder)
    IN  runChecks(<<
            check(hip # Undefined /\ shoulder.y < hip.y - 150, BenchShrug, 20),
            check(angleGreater(elbowShoulderAngle, 100), BenchWide, 25),
            check(angleLess(elbowShoulderAngle, 45), BenchTight, 15),
            check(Abs(wrist.x - elbow.x) > 40, BenchWrist, 20),
            check(wrist.x < shoulder.x - 50, BenchBarPath, 30),
            check(hip # Undefined /\ Abs(shoulder.x - hip.x) > 80, BenchArch, 15),
            check(nose = Undefined \/ nose.y - shoulder.y > 50, BenchHead, 10)
        >>)

\* the head check on the absolute distance
benchChecks_AbsoluteHead(shoulder, elbow, wrist, hip, nose) ==
    LET elbowShoulderAngle == calculateAngle(wrist, elbow, shoulder)
    IN  runChecks(<<
            check(hip # Undefined /\ shoulder.y < hip.y - 150, BenchShrug, 20),
            check(angleGreater(elbowShoulderAngle, 100), BenchWide, 25),
            check(angleLess(elbowShoulderAngle, 45), BenchTight, 15),
            check(Abs(wrist.x - elbow.x) > 40, BenchWrist, 20),
            check(wrist.x < shoulder.x - 50, BenchBarPath, 30),
            check(hip # Undefined /\ Abs(shoulder.x - hip.x) > 80, BenchArch, 15),
            check(nose # Undefined /\ Abs(nose.y - shoulder.y) > 50, BenchHead, 10)
        >>)

benchChecks(shoulder, elbow, wrist, hip, nose) ==
    LET elbowShoulderAngle == calculateAngle(wrist, elbow, shoulder)
    IN  runChecks(<<
            check(hip # Undefined /\ shoulder.y < hip.y - 150, BenchShrug, 20),
            check(angleGreater(elbowShoulderAngle, 100), BenchWide, 25),
            check(angleLess(elbowShoulderAngle, 45), BenchTight, 15),
            check(Abs(wrist.x - elbow.x) > 40, BenchWrist, 20),
            check(wrist.x < shoulder.x - 50, BenchBarPath, 30),
            check(hip # Undefined /\ Abs(shoulder.x - hip.x) > 80, BenchArch, 15),
            check(nose # Undefined /\ nose.y - shoulder.y > 50, BenchHead, 10)
        >>)

analyzeBenchTechnique(kps, sideProfile) ==
    LET side == selectedSide(sideProfile)
        shoulder == find(kps, sideClass(side, "shoulder"))
        elbow == find(kps, sideClass(side, "elbow"))
        wrist == find(kps, sideClass(side, "wrist"))
        hip == find(kps, sideClass(side, "hip"))
        nose == find(kps, "nose")
    IN  IF notVisible(shoulder) \/ notVisible(elbow) \/ notVisible(wrist)
        THEN [issues |-> <<BenchGateIssue>>, scoreMultiplier |-> gateMultiplier]
        ELSE LET r == benchChecks(shoulder, elbow, wrist, hip, nose)
             IN  [issues |-> r.issues,
                  scoreMultiplier |-> floorMultiplier(r.scoreMultiplier)]

----------------------------------------------------------------------------
(* analyzeTechnique *)

GlobalIssue == "Some body parts are not clearly visible"
lowConfidenceThreshold == 50
maxLowConfidence == 3
fullScore == 10000
lowVisibilityPenalty == 2000

lowConfidenceKeypoints(kps) ==
    SelectSeq(kps, LAMBDA kp : kp.confidence < lowConfidenceThreshold)

\* score += 0.2
globalCheck_Added(kps) ==
    IF Len(lowConfidenceKeypoints(kps)) > maxLowConfidence
    THEN [issues |-> <<GlobalIssue>>, score |-> fullScore + lowVisibilityPenalty]
    ELSE [issues |-> <<>>, score |-> fullScore]

\* if (lowConfidenceKeypoints.length >= 3)
globalCheck_Inclusive(kps) ==
    IF Len(lowConfidenceKeypoints(kps)) >= maxLowConfidence
    THEN [issues |-> <<GlobalIssue>>, score |-> fullScore - lowVisibilityPenalty]
    ELSE [issues |-> <<>>, score |-> fullScore]

\* if (lowConfidenceKeypoints.length > 3) { issues.push(...); score -= 0.2 }
globalCheck(kps) ==
    IF Len(lowConfidenceKeypoints(kps)) > maxLowConfidence
    THEN [issues |-> <<GlobalIssue>>, score |-> fullScore - lowVisibilityPenalty]
    ELSE [issues |-> <<>>, score |-> fullScore]

\* the engine the exerciseType selects
exerciseAnalysis(kps, sideProfile, ex) ==
    CASE ex = "squat" -> analyzeSquatTechnique(kps, sideProfile)
      [] ex = "deadlift" -> analyzeDeadliftTechnique(kps, sideProfile)
      [] ex = "bench" -> analyzeBenchTechnique(kps, sideProfile)

\* the visibility penalty subtracted after the multiplication
timesMultiplier_PenaltyLast(score, m) == (fullScore * m) \div 100 - (fullScore - score)

\* score *= scoreMultiplier (a multiplier in hundredths)
timesMultiplier(score, m) == (score * m) \div 100

\* Math.max(0, score)
clampScore(score) == Max(0, score)

\* a call without exerciseType analysed as a squat
analyzeTechnique_DefaultSquat(kps, ex) ==
    LET sideProfile == determineSideProfile(kps)
        g == globalCheck(kps)
        e == exerciseAnalysis(kps, sideProfile, IF ex \in ExerciseTypes THEN ex ELSE "squat")
    IN  [score |-> clampScore(timesMultiplier(g.score, e.scoreMultiplier)),
         issues |-> g.issues \o e.issues,
         sideProfile |-> sideProfile]

\* the gate outcome returned alone, without the issue of the visibility check
analyzeTechnique_GateAlone(kps, ex) ==
    LET sideProfile == determineSideProfile(kps)
        g == globalCheck(kps)
    IN  IF ex \in ExerciseTypes
        THEN LET e == exerciseAnalysis(kps, sideProfile, ex)
             IN  [score |-> clampScore(timesMultiplier(g.score, e.scoreMultiplier)),
                  issues |-> IF e.scoreMultiplier = gateMultiplier THEN e.issues
                             ELSE g.issues \o e.issues,
                  sideProfile |-> sideProfile]
        ELSE [score |-> clampScore(g.score),
              issues |-> g.issues,
              sideProfile |-> sideProfile]

analyzeTechnique(kps, ex) ==
    LET sideProfile == determineSideProfile(kps)
        g == globalCheck(kps)
    IN  IF ex \in ExerciseTypes
        THEN LET e == exerciseAnalysis(kps, sideProfile, ex)
             IN  [score |-> clampScore(timesMultiplier(g.score, e.scoreMultiplier)),
                  issues |-> g.issues \o e.issues,
                  sideProfile |-> sideProfile]
        ELSE [score |-> clampScore(g.score),
              issues |-> g.issues,
              sideProfile |-> sideProfile]

----------------------------------------------------------------------------
(* The frames analysed: bounded families of keypoint lists *)

MaxExtra == 2

Sides == {"left", "right"}
otherSide(side) == IF side = "left" THEN "right" ELSE "left"
Joints == <<"shoulder", "elbow", "wrist", "hip", "knee", "ankle">>
JointSet == {Joints[i] : i \in 1..Len(Joints)}
HeadExtras == <<"left_eye", "right_eye", "left_ear", "right_ear">>

\* A stacked, fully extended stance with the arm held in front
PoseA == [shoulder |-> <<100, 150>>, elbow |-> <<100, 250>>, wrist |-> <<100, 200>>,
          hip |-> <<100, 300>>, knee |-> <<100, 400>>, ankle |-> <<100, 500>>]
\* A different pose, for the side that is not varied
PoseB == [shoulder |-> <<69, 150>>, elbow |-> <<30, 150>>, wrist |-> <<49, 100>>,
          hip |-> <<50, 380>>, knee |-> <<181, 400>>, ankle |-> <<100, 500>>]

KneePoints == {<<100, 400>>, <<160, 400>>, <<161, 400>>, <<180, 400>>, <<181, 400>>,
               <<39, 400>>, <<100, 500>>}
HipPoints == {<<100, 300>>, <<50, 380>>, <<100, 100>>, <<250, 390>>, <<100, 400>>}
ShoulderPoints == {<<100, 150>>, <<90, 250>>, <<69, 150>>, <<70, 150>>, <<260, 330>>,
                   <<0, 390>>, <<100, 450>>}
ElbowPoints == {<<100, 250>>, <<140, 200>>, <<141, 200>>, <<30, 150>>, <<200, 150>>}
WristPoints == {<<100, 200>>, <<49, 100>>, <<50, 100>>, <<160, 300>>, <<100, 250>>}
NosePoints == {<<100, 100>>, <<100, 49>>, <<100, 251>>, <<200, 150>>}

\* A side's confidences: a function from the joints that are present
uniformConf(c) == [j \in JointSet |-> c]
withoutJoint(conf, j) == [k \in (DOMAIN conf) \ {j} |-> conf[k]]
NoJoints == [j \in {} |-> 0]
SideConfs ==
    {uniformConf(c) : c \in {20, 50, 70, 90}}
    \cup {NoJoints}
    \cup {withoutJoint(uniformConf(c), j) : c \in {20, 90}, j \in JointSet}
    \cup {[uniformConf(90) EXCEPT ![j] = c] : j \in JointSet, c \in {20, 49}}
    \cup {[j \in {"shoulder", "hip", "knee", "ankle"} |-> 20]}

\* the keypoints of one side, in the order of Joints
sideKeypoints(side, conf, pose) ==
    LET all == [i \in 1..Len(Joints) |->
                  IF Joints[i] \in DOMAIN conf
                  THEN KeypointData(sideClass(side, Joints[i]), conf[Joints[i]],
                                    pose[Joints[i]])
                  ELSE Undefined]
    IN  SelectSeq(all, LAMBDA kp : kp # Undefined)

\* the first n head landmarks, all at confidence c
extraKeypoints(n, c) ==
    [i \in 1..n |-> KeypointData(HeadExtras[i], c, <<100 + i, 90>>)]

\* nose options: none, or a nose with a confidence at a point
NoNose == <<>>
noseAt(c, p) == <<KeypointData("nose", c, p)>>

frame(nose, extras, lconf, lpose, rconf, rpose) ==
    nose \o extras \o sideKeypoints("left", lconf, lpose)
         \o sideKeypoints("right", rconf, rpose)

\* both sides in fixed poses, every combination of visibility
VisibilityFrames ==
    {frame(nose, extraKeypoints(n, c), lconf, PoseB, rconf, PoseA) :
        nose \in {NoNose, noseAt(20, <<100, 100>>), noseAt(90, <<100, 100>>)},
        n \in 0..MaxExtra, c \in {20, 90},
        lconf \in SideConfs, rconf \in SideConfs}

\* the confidences of the side that is not varied: absent, lower, equal
OtherConfs == {NoJoints, uniformConf(50), uniformConf(90)}

sidesFrame(nose, side, conf, pose, oconf) ==
    IF side = "left" THEN frame(nose, <<>>, conf, pose, oconf, PoseB)
    ELSE frame(nose, <<>>, oconf, PoseB, conf, pose)

\* one clearly visible side with its legs and torso in every position
LegFrames ==
    {sidesFrame(nose, side, uniformConf(90),
                [PoseA EXCEPT !.knee = k, !.hip = h, !.shoulder = s], oconf) :
        nose \in {NoNose} \cup {noseAt(90, p) : p \in NosePoints},
        side \in Sides, oconf \in OtherConfs,
        k \in KneePoints, h \in HipPoints, s \in ShoulderPoints}

\* one clearly visible side with its arm and torso in every position
ArmFrames ==
    {sidesFrame(nose, side, conf,
                [PoseA EXCEPT !.elbow = e, !.wrist = w, !.shoulder = s, !.hip = h], oconf) :
        nose \in {NoNose, noseAt(90, <<100, 100>>), noseAt(90, <<100, 251>>)},
        side \in Sides, oconf \in {uniformConf(50)},
        conf \in {uniformConf(90), withoutJoint(uniformConf(90), "hip")},
        e \in ElbowPoints, w \in WristPoints,
        s \in {<<100, 150>>, <<260, 330>>, <<0, 390>>},
        h \in {<<100, 300>>, <<100, 400>>, <<250, 390>>}}

\* only the ankle, knee, hip and shoulder of the right side, one above the
\* other on a vertical line
StackedHeights ==
    {<<500, 400, 300, 150>>, <<500, 499, 498, 497>>, <<400, 300, 101, 100>>,
     <<450, 200, 150, 10>>}
StackedFrames ==
    {<<KeypointData("right_ankle", c[1], <<x, ys[1]>>),
       KeypointData("right_knee", c[2], <<x, ys[2]>>),
       KeypointData("right_hip", c[3], <<x, ys[3]>>),
       KeypointData("right_shoulder", c[4], <<x, ys[4]>>)>> :
        x \in {0, 100, 240}, ys \in StackedHeights,
        c \in [1..4 -> {50, 90}]}

\* the right side with the hip on and next to the heights at which the
\* hip-to-knee ratio of the deadlift is 2.5 and 0.8, the knee above the ankle
\* (denominator -100), below it (denominator 20) and level with it
\* (denominator 0, the hip above, level and below), and the shoulder on and
\* next to 30 behind the ankle
HipHeights == {149, 150, 151, 319, 320, 321, 500, 535, 536, 537, 569, 570, 571}
HipRatioFrames ==
    {frame(NoNose, <<>>, oconf, PoseB, uniformConf(90),
           [PoseA EXCEPT !.knee = k, !.hip = <<100, hy>>, !.shoulder = s]) :
        oconf \in {NoJoints, uniformConf(50)},
        k \in {<<100, 400>>, <<100, 520>>, <<160, 500>>}, hy \in HipHeights,
        s \in {<<69, 150>>, <<70, 150>>, <<100, 150>>}}

\* the right side with the hip and the nose on and next to the thresholds of
\* the bench press against the shoulder at (100, 150): the hip 80 and 81 to
\* the side and 149, 150 and 151 below, the nose 50 and 51 below and above
TorsoHips == {<<100, 300>>, <<180, 300>>, <<181, 300>>, <<19, 301>>, <<20, 299>>}
TorsoNoses == {<<100, 200>>, <<100, 201>>, <<100, 49>>}
TorsoFrames ==
    {frame(nose, <<>>, oconf, PoseB, uniformConf(90), [PoseA EXCEPT !.hip = h]) :
        nose \in {NoNose} \cup {noseAt(90, p) : p \in TorsoNoses},
        oconf \in {NoJoints, uniformConf(50)}, h \in TorsoHips}

Frames ==
    VisibilityFrames \cup LegFrames \cup ArmFrames \cup StackedFrames
        \cup HipRatioFrames \cup TorsoFrames

----------------------------------------------------------------------------
(* src/components/PostureCamera.tsx and the analysis history of
   src/app/page.tsx.  A click is handled and rendered in one step (React
   commits the updates of a discrete event before the next event, and the
   commit is taken to show every update made so far); updates made in a
   timer callback or after an await are committed by a later Render step,
   and until then the handlers, the disabled flags and the interval of the
   last commit are the ones that run.  The video element is always mounted,
   so videoRef.current is never null.                                       *)

MaxDelivered == 12

historyLimit == 9

CameraError == "Failed to access camera. Please check permissions."
AnalysisError == "Failed to analyze posture. Please try again."
NoError == "null"
NoAnalysis == [id |-> 0]
NoInterval == [set |-> FALSE, isAnalyzing |-> FALSE, due |-> FALSE]

\* the state the next commit renders
currentRender ==
    [isStreamActive |-> isStreamActive, isAnalyzing |-> isAnalyzing,
     autoAnalyze |-> autoAnalyze]

\* the auto-analyze effect of a commit: an interval when autoAnalyze and
\* isStreamActive, with the isAnalyzing of that render in its callback
effectInterval(r) ==
    IF r.autoAnalyze /\ r.isStreamActive
    THEN [set |-> TRUE, isAnalyzing |-> r.isAnalyzing, due |-> TRUE]
    ELSE NoInterval

\* (prev) => [result, ...prev.slice(0, 10)]
handleAnalysisResult_KeepEleven(prev, res) ==
    <<res>> \o SubSeq(prev, 1, IF Len(prev) < 10 THEN Len(prev) ELSE 10)

\* (prev) => [result, ...prev.slice(0, 9)]
handleAnalysisResult(prev, res) ==
    <<res>> \o SubSeq(prev, 1, IF Len(prev) < historyLimit THEN Len(prev) ELSE historyLimit)

cameraVars ==
    <<isStreamActive, isAnalyzing, analysisResultState, error, autoAnalyze, rendered,
      interval, inFlight, cameraRequested, analysisHistory, delivered>>

\* the component as mounted: no stream, nothing analysed, no history
CameraMounted ==
    /\ isStreamActive = FALSE
    /\ isAnalyzing = FALSE
    /\ analysisResultState = NoAnalysis
    /\ error = NoError
    /\ autoAnalyze = FALSE
    /\ rendered = [isStreamActive |-> FALSE, isAnalyzing |-> FALSE,
                   autoAnalyze |-> FALSE]
    /\ interval = NoInterval
    /\ inFlight = 0
    /\ cameraRequested = FALSE
    /\ analysisHistory = <<>>
    /\ delivered = <<>>

InitCamera ==
    /\ CameraMounted
    /\ keypoints = <<>>
    /\ exerciseType = Omitted
    /\ result = NoResult
    /\ pc = "idle"
    /\ response = NoResult
    /\ posture = NoResult
    /\ feedback = NoResult

analysisVars == <<keypoints, exerciseType, result, pc, response, posture, feedback>>

\* the commit that ends a click: handlers, disabled flags and interval renewed
commit ==
    /\ rendered' = [isStreamActive |-> isStreamActive', isAnalyzing |-> isAnalyzing',
                    autoAnalyze |-> autoAnalyze']
    /\ interval' = effectInterval(rendered')

\* analyzeCurrentFrame up to its await, with the isStreamActive of its render
analyzeStarted(streamActiveSeen) ==
    /\ streamActiveSeen
    /\ Len(delivered) + inFlight < MaxDelivered
    /\ isAnalyzing' = TRUE
    /\ error' = NoError
    /\ inFlight' = inFlight + 1

\* Start Camera, shown while the rendered isStreamActive is false
StartCamera ==
    /\ ~rendered.isStreamActive
    /\ ~cameraRequested
    /\ error' = NoError
    /\ cameraRequested' = TRUE
    /\ UNCHANGED <<isStreamActive, isAnalyzing, analysisResultState, autoAnalyze, inFlight,
                   analysisHistory, delivered>>
    /\ UNCHANGED analysisVars
    /\ commit

\* getUserMedia resolved: the stream is attached and isStreamActive set
CameraGranted ==
    /\ cameraRequested
    /\ cameraRequested' = FALSE
    /\ isStreamActive' = TRUE
    /\ UNCHANGED <<isAnalyzing, analysisResultState, error, autoAnalyze, rendered, interval,
                   inFlight, analysisHistory, delivered>>
    /\ UNCHANGED analysisVars

\* getUserMedia rejected
CameraDenied ==
    /\ cameraRequested
    /\ cameraRequested' = FALSE
    /\ error' = CameraError
    /\ UNCHANGED <<isStreamActive, isAnalyzing, analysisResultState, autoAnalyze, rendered,
                   interval, inFlight, analysisHistory, delivered>>
    /\ UNCHANGED analysisVars

\* Stop Camera, shown while the rendered isStreamActive is true
StopCamera ==
    /\ rendered.isStreamActive
    /\ isStreamActive' = FALSE
    /\ UNCHANGED <<isAnalyzing, analysisResultState, error, autoAnalyze, inFlight,
                   cameraRequested, analysisHistory, delivered>>
    /\ UNCHANGED analysisVars
    /\ commit

\* the Auto-analyze checkbox, shown while the rendered isStreamActive is true
ToggleAutoAnalyze ==
    /\ rendered.isStreamActive
    /\ autoAnalyze' = ~autoAnalyze
    /\ UNCHANGED <<isStreamActive, isAnalyzing, analysisResultState, error, inFlight,
                   cameraRequested, analysisHistory, delivered>>
    /\ UNCHANGED analysisVars
    /\ commit

\* Analyze Posture, shown while the rendered isStreamActive is true and
\* disabled while the rendered isAnalyzing is true
ClickAnalyze ==
    /\ rendered.isStreamActive
    /\ ~rendered.isAnalyzing
    /\ analyzeStarted(rendered.isStreamActive)
    /\ UNCHANGED <<isStreamActive, analysisResultState, autoAnalyze, cameraRequested,
                   analysisHistory, delivered>>
    /\ UNCHANGED analysisVars
    /\ commit

\* the interval fires: if (!isAnalyzing) analyzeCurrentFrame(), both of the
\* render that set the interval.  It fires once before the next commit (the
\* commit follows within the 3 seconds).
TimerTick ==
    /\ interval.set /\ interval.due
    /\ ~interval.isAnalyzing
    /\ analyzeStarted(TRUE)
    /\ interval' = [interval EXCEPT !.due = FALSE]
    /\ UNCHANGED <<isStreamActive, analysisResultState, autoAnalyze, rendered,
                   cameraRequested, analysisHistory, delivered>>
    /\ UNCHANGED analysisVars

\* analyzePosture resolved: setAnalysisResult, onAnalysisResult, finally
RequestSucceeds ==
    /\ inFlight > 0
    /\ LET res == [id |-> Len(delivered) + 1]
       IN  /\ analysisResultState' = res
           /\ analysisHistory' = handleAnalysisResult(analysisHistory, res)
           /\ delivered' = Append(delivered, res)
    /\ isAnalyzing' = FALSE
    /\ inFlight' = inFlight - 1
    /\ UNCHANGED <<isStreamActive, error, autoAnalyze, rendered, interval,
                   cameraRequested>>
    /\ UNCHANGED analysisVars

\* captureImageFromVideo or analyzePosture threw: catch, finally
RequestFails ==
    /\ inFlight > 0
    /\ error' = AnalysisError
    /\ isAnalyzing' = FALSE
    /\ inFlight' = inFlight - 1
    /\ UNCHANGED <<isStreamActive, analysisResultState, autoAnalyze, rendered, interval,
                   cameraRequested, analysisHistory, delivered>>
    /\ UNCHANGED analysisVars

\* React commits the pending updates: new handlers, new interval
Render ==
    /\ rendered # currentRender \/ (interval.set /\ ~interval.due)
    /\ rendered' = currentRender
    /\ interval' = effectInterval(currentRender)
    /\ UNCHANGED <<isStreamActive, isAnalyzing, analysisResultState, error, autoAnalyze,
                   inFlight, cameraRequested, analysisHistory, delivered>>
    /\ UNCHANGED analysisVars

NextCamera ==
    \/ StartCamera
    \/ CameraGranted
    \/ CameraDenied
    \/ StopCamera
    \/ ToggleAutoAnalyze
    \/ ClickAnalyze
    \/ TimerTick
    \/ RequestSucceeds
    \/ RequestFails
    \/ Render

SpecCamera == InitCamera /\ [][NextCamera]_vars

\* every request settles and every pending update is committed
FairSpecCamera ==
    /\ SpecCamera
    /\ WF_vars(RequestSucceeds \/ RequestFails)
    /\ WF_vars(Render)

----------------------------------------------------------------------------
(* The state machine: one frame, one call of analyzeTechnique *)

Init ==
    /\ keypoints \in Frames
    /\ exerciseType = Omitted
    /\ result = NoResult
    /\ pc = "idle"
    /\ response = NoResult
    /\ posture = NoResult
    /\ feedback = NoResult
    /\ CameraMounted

AnalyzeTechnique(ex) ==
    /\ pc = "idle"
    /\ exerciseType' = ex
    /\ result' = analyzeTechnique(keypoints, ex)
    /\ pc' = "done"
    /\ UNCHANGED <<keypoints, response, posture, feedback>>
    /\ UNCHANGED cameraVars

Next == \E ex \in ExerciseTypes \cup {Omitted} : AnalyzeTechnique(ex)

Spec == Init /\ [][Next]_vars

----------------------------------------------------------------------------
(* src/lib/roboflow.ts: processRoboflowResponse and its keypoint analysis.
   The score of analyzeKeypoints is in hundredths.                         *)

ShouldersUneven == "Shoulders appear uneven - focus on symmetrical positioning"
HipsUneven == "Hip alignment could be improved"
KneesClose == "Knees may be too close together for a proper squat stance"
LeftKneeTracking == "Left knee tracking could be improved"
SpineUpright == "Maintain a more upright spine position"
ShouldersUnstable == "Shoulder positioning could be more stable"
LowDetection == "Person detection confidence is low"

\* found, and confidence > 0.5
confident(kp) == kp # Undefined /\ kp.confidence > 50

\* the checks of analyzeKeypoints, in the order of the code
postureChecks(kps, ex) ==
    LET nose == find(kps, "nose")
        leftShoulder == find(kps, "left_shoulder")
        rightShoulder == find(kps, "right_shoulder")
        leftHip == find(kps, "left_hip")
        rightHip == find(kps, "right_hip")
        leftKnee == find(kps, "left_knee")
        rightKnee == find(kps, "right_knee")
        leftAnkle == find(kps, "left_ankle")
    IN  <<check(Len(lowConfidenceKeypoints(kps)) > 3, GlobalIssue, 20),
          check(confident(leftShoulder) /\ confident(rightShoulder)
                  /\ Abs(leftShoulder.y - rightShoulder.y) > 30,
                ShouldersUneven, 20),
          check(confident(leftHip) /\ confident(rightHip)
                  /\ Abs(leftHip.y - rightHip.y) > 25,
                HipsUneven, 20),
          check(ex = "squat" /\ confident(leftKnee) /\ confident(rightKnee)
                  /\ Abs(leftKnee.x - rightKnee.x) < 20,
                KneesClose, 15),
          check(ex = "squat" /\ confident(leftKnee) /\ confident(leftAnkle)
                  /\ Abs(leftKnee.x - leftAnkle.x) > 50,
                LeftKneeTracking, 10),
          \* |nose.y - (leftHip.y + rightHip.y) / 2| < 100, doubled
          check(ex = "deadlift" /\ nose # Undefined /\ leftHip # Undefined
                  /\ rightHip # Undefined
                  /\ Abs(2 * nose.y - (leftHip.y + rightHip.y)) < 200,
                SpineUpright, 20),
          check(ex = "bench" /\ leftShoulder # Undefined /\ rightShoulder # Undefined
                  /\ Abs(leftShoulder.x - rightShoulder.x) < 50,
                ShouldersUnstable, 10)>>

analyzeKeypoints(kps, ex) ==
    LET r == runChecks(postureChecks(kps, ex))
    IN  [score |-> Max(0, r.scoreMultiplier), issues |-> r.issues]

\* postureAnalysis.score > 0.6, strictly
scoreIsGood_Strict(score) == score > 60

\* postureAnalysis.score > 0.6 on the double the code holds.  The only way to
\* a score of 0.6 is 1.0 - 0.2 - 0.2, which is 0.6000000000000001 in IEEE
\* doubles and so exceeds the literal 0.6; every other score is on the same
\* side of 0.6 as its decimal value.
scoreIsGood(score) == score > 60 \/ score = 60

\* confidence > 0.7 with a laxer threshold
confidenceIsGood_Lax(confidence) == confidence > 50

confidenceIsGood(confidence) == confidence > 70

\* the getExerciseSpecificFeedback of roboflow.ts; the doubles 0.7000000000000001
\* (1.0 - 0.2 - 0.1) and 0.7 are both not below 0.7
postureSpecificFeedback(ex, postureAnalysis) ==
    IF postureAnalysis.score < 70
    THEN CASE ex = "squat" ->
                <<"Focus on keeping your weight balanced on your heels",
                  "Ensure your knees track in line with your toes">>
           [] ex = "deadlift" ->
                <<"Keep the bar close to your body throughout the movement",
                  "Maintain a neutral spine position">>
           [] ex = "bench" ->
                <<"Keep your shoulder blades pulled back and down",
                  "Maintain stability throughout the movement">>
    ELSE <<>>

exerciseOrUnknown(ex) == IF ex = Omitted THEN "unknown" ELSE ex

defaultResult(ex) ==
    [isGoodPosture |-> FALSE, confidence |-> 0, feedback |-> <<>>,
     exercise |-> exerciseOrUnknown(ex), detectedIssues |-> <<>>,
     visualizedImage |-> Undefined]

processRoboflowResponse(resp, ex) ==
    IF resp.outputs = <<>> THEN defaultResult(ex)
    ELSE
    LET output == resp.outputs[1]
        personDetection == find(output.predictions, "person")
        confidence == IF personDetection = Undefined THEN 0
                      ELSE personDetection.confidence
        kps == IF personDetection = Undefined THEN <<>> ELSE personDetection.keypoints
        postureAnalysis == analyzeKeypoints(kps, ex)
        isGoodPosture == confidenceIsGood(confidence) /\ scoreIsGood(postureAnalysis.score)
        hasIssues == postureAnalysis.issues # <<>>
    IN  [isGoodPosture |-> isGoodPosture,
         confidence |-> confidence,
         feedback |->
            IF isGoodPosture
            THEN <<"Excellent form detected!",
                   IF ex # Omitted THEN "Your " \o ex \o " technique looks great."
                   ELSE "Your posture and alignment look great.">>
            ELSE <<"There are some areas for improvement in your form.">>
                 \o (IF ex # Omitted THEN postureSpecificFeedback(ex, postureAnalysis)
                     ELSE <<>>)
                 \o (IF hasIssues THEN <<"Focus on the highlighted areas for better form.">>
                     ELSE <<>>)
                 \o (IF confidence < 50
                     THEN <<"Make sure you're clearly visible in the camera frame.">>
                     ELSE <<>>),
         exercise |-> exerciseOrUnknown(ex),
         detectedIssues |->
            IF isGoodPosture THEN <<>>
            ELSE postureAnalysis.issues
                 \o (IF confidence < 50 THEN <<LowDetection>> ELSE <<>>),
         visualizedImage |-> output.visualization]

(* Responses *)

Prediction(cls, conf, kps) == [class |-> cls, confidence |-> conf, keypoints |-> kps]
RoboflowResponse(preds) ==
    [outputs |-> <<[visualization |-> "jpeg", predictions |-> preds]>>]
NoOutputs == [outputs |-> <<>>]

\* a pose that sits on the thresholds of analyzeKeypoints against PoseA
\* (shoulders 30 apart in height and 50 across, hips 25, knees 20, knee to
\* ankle 50); PoseC1 is one pixel past each of them
PoseC == [shoulder |-> <<150, 180>>, elbow |-> <<100, 250>>, wrist |-> <<100, 200>>,
          hip |-> <<100, 325>>, knee |-> <<120, 400>>, ankle |-> <<70, 500>>]
PoseC1 == [shoulder |-> <<149, 181>>, elbow |-> <<100, 250>>, wrist |-> <<100, 200>>,
           hip |-> <<100, 326>>, knee |-> <<119, 400>>, ankle |-> <<68, 500>>]

\* a side with some joints absent or at a low confidence
withJoints(conf, js, c) == [j \in DOMAIN conf |-> IF j \in js THEN c ELSE conf[j]]
withoutJoints(conf, js) == [j \in (DOMAIN conf) \ js |-> conf[j]]
PostureConfs ==
    {uniformConf(c) : c \in {30, 31, 50, 51, 90}}
    \cup {NoJoints}
    \cup {withJoints(uniformConf(90), js, 30) : js \in {{"shoulder"}, {"shoulder", "hip"}}}
    \cup {withoutJoints(uniformConf(90), js) : js \in {{"knee"}, {"elbow", "wrist"}}}

PostureFrames ==
    {frame(nose, <<>>, lconf, lpose, rconf, PoseA) :
        nose \in {NoNose, noseAt(90, <<100, 100>>), noseAt(40, <<100, 251>>)},
        lconf \in PostureConfs, rconf \in PostureConfs,
        lpose \in {PoseA, PoseB, PoseC, PoseC1}}

PersonConfidences == {49, 50, 70, 71, 90}

Responses ==
    {RoboflowResponse(<<Prediction("person", c, kps)>>) :
        c \in PersonConfidences, kps \in PostureFrames}
    \cup {RoboflowResponse(<<Prediction("barbell", 95, <<>>), Prediction("person", c, kps)>>) :
            c \in {90}, kps \in {frame(NoNose, <<>>, uniformConf(90), PoseB,
                                       uniformConf(90), PoseA)}}
    \cup {NoOutputs, RoboflowResponse(<<>>),
          RoboflowResponse(<<Prediction("barbell", 95, <<>>)>>)}

InitRoboflow ==
    /\ response \in Responses
    /\ keypoints = <<>>
    /\ exerciseType = Omitted
    /\ result = NoResult
    /\ pc = "idle"
    /\ posture = NoResult
    /\ feedback = NoResult
    /\ CameraMounted

ProcessRoboflowResponse(ex) ==
    /\ pc = "idle"
    /\ exerciseType' = ex
    /\ posture' = processRoboflowResponse(response, ex)
    /\ pc' = "done"
    /\ UNCHANGED <<keypoints, result, response, feedback>>
    /\ UNCHANGED cameraVars

NextRoboflow == \E ex \in ExerciseTypes \cup {Omitted} : ProcessRoboflowResponse(ex)

SpecRoboflow == InitRoboflow /\ [][NextRoboflow]_vars

----------------------------------------------------------------------------
(* getExerciseSpecificFeedback of techniqueAnalysis.ts.  The arrows of the
   messages are written "->".                                              *)

firstTierThreshold == 8000
secondTierThreshold == 6000

\* analysisResult.score <= 0.8
belowFirstTier_Inclusive(score) == score <= firstTierThreshold

\* analysisResult.score < 0.8
belowFirstTier(score) == score < firstTierThreshold

\* analysisResult.score < 0.6
belowSecondTier(score) == score < secondTierThreshold

getExerciseSpecificFeedback(ex, analysisResult) ==
    CASE ex = "squat" ->
            (IF belowFirstTier(analysisResult.score)
             THEN <<"Focus on the ankle -> knee -> hip -> chest alignment",
                    "Keep your weight on your heels throughout the movement",
                    "Maintain an upright chest and avoid leaning forward">>
             ELSE <<>>)
            \o (IF belowSecondTier(analysisResult.score)
                THEN <<"Work on hip and ankle mobility to improve squat depth",
                       "Practice bodyweight squats to master the movement pattern">>
                ELSE <<>>)
      [] ex = "deadlift" ->
            (IF belowFirstTier(analysisResult.score)
             THEN <<"Keep the bar path close to your body throughout the lift",
                    "Maintain a neutral spine - avoid rounding your back",
                    "Focus on the ankle -> knee -> hip -> chest chain alignment">>
             ELSE <<>>)
            \o (IF belowSecondTier(analysisResult.score)
                THEN <<"Work on hip hinge mobility and posterior chain strength",
                       "Consider starting with lighter weight to perfect your form">>
                ELSE <<>>)
      [] ex = "bench" ->
            (IF belowFirstTier(analysisResult.score)
             THEN <<"Focus on shoulder -> elbow -> wrist -> bar path alignment",
                    "Retract your shoulder blades and maintain stability",
                    "Keep your wrists straight and stacked over your forearms">>
             ELSE <<>>)
            \o (IF belowSecondTier(analysisResult.score)
                THEN <<"Work on shoulder mobility and scapular stability",
                       "Practice the movement with lighter weight or just the bar">>
                ELSE <<>>)

(* Analysis results handed to getExerciseSpecificFeedback *)

FeedbackScores == {0, 1000, 2400, 5999, 6000, 6001, 7999, 8000, 8001, 10000}
FeedbackIssues ==
    {<<>>, <<SquatDepth>>, <<GlobalIssue, SquatToes, SquatKnees, SquatChest>>,
     <<DeadliftGateIssue>>}
AnalysisResults ==
    {[score |-> s, issues |-> is, sideProfile |-> sp] :
        s \in FeedbackScores, is \in FeedbackIssues, sp \in {"left", "right", "unknown"}}

InitFeedback ==
    /\ result \in AnalysisResults
    /\ keypoints = <<>>
    /\ exerciseType = Omitted
    /\ pc = "idle"
    /\ response = NoResult
    /\ posture = NoResult
    /\ feedback = NoResult
    /\ CameraMounted

GetExerciseSpecificFeedback(ex) ==
    /\ pc = "idle"
    /\ exerciseType' = ex
    /\ feedback' = getExerciseSpecificFeedback(ex, result)
    /\ pc' = "done"
    /\ UNCHANGED <<keypoints, result, response, posture>>
    /\ UNCHANGED cameraVars

NextFeedback == \E ex \in ExerciseTypes : GetExerciseSpecificFeedback(ex)

SpecFeedback == InitFeedback /\ [][NextFeedback]_vars

----------------------------------------------------------------------------
(* Vocabulary of the properties, stated on the keypoint list itself *)

Done == pc = "done"
WithExercise == Done /\ exerciseType \in ExerciseTypes

\* how many supplied landmarks have confidence < 0.5
LowCount == Cardinality({i \in 1..Len(keypoints) : keypoints[i].confidence < 50})

\* the issues and the base score the visibility of the whole list calls for
ExpectedGlobalIssues == IF LowCount > 3 THEN <<GlobalIssue>> ELSE <<>>
ExpectedBaseScore == IF LowCount > 3 THEN 8000 ELSE 10000

\* the side an engine reads, and the landmarks it requires
SideRead == IF result.sideProfile = "left" THEN "left" ELSE "right"
RequiredJoints(ex) ==
    IF ex = "bench" THEN {"shoulder", "elbow", "wrist"}
    ELSE {"ankle", "knee", "hip", "shoulder"}
GateIssue(ex) ==
    CASE ex = "squat" -> SquatGateIssue
      [] ex = "deadlift" -> DeadliftGateIssue
      [] ex = "bench" -> BenchGateIssue

\* a landmark of the class is supplied with confidence >= 0.5
Visible(cls) ==
    \E i \in 1..Len(keypoints) :
        keypoints[i].class = cls /\ keypoints[i].confidence >= 50
GateOpen == \A j \in RequiredJoints(exerciseType) : Visible(SideRead \o "_" \o j)

\* what the engine of the call returned
Engine == exerciseAnalysis(keypoints, result.sideProfile, exerciseType)

\* the fixed penalty of an issue, in hundredths
IssuePenalty(issue) ==
    CASE issue = SquatToes -> 25 [] issue = SquatKnees -> 20 [] issue = SquatChest -> 30
      [] issue = SquatDepth -> 10 [] issue = SquatWink -> 15 [] issue = SquatHead -> 10
      [] issue = DeadliftBar -> 30 [] issue = DeadliftHipsHigh -> 20
      [] issue = DeadliftHipsLow -> 20 [] issue = DeadliftSpine -> 40
      [] issue = DeadliftKnees -> 15 [] issue = DeadliftLookUp -> 10
      [] issue = DeadliftLookDown -> 10
      [] issue = BenchShrug -> 20 [] issue = BenchWide -> 25 [] issue = BenchTight -> 15
      [] issue = BenchWrist -> 20 [] issue = BenchBarPath -> 30 [] issue = BenchArch -> 15
      [] issue = BenchHead -> 10
      [] OTHER -> 0

RECURSIVE PenaltySum(_)
PenaltySum(issues) ==
    IF issues = <<>> THEN 0 ELSE IssuePenalty(Head(issues)) + PenaltySum(Tail(issues))

----------------------------------------------------------------------------
(* C1..C10 *)

\* C1: for every keypoint list and every exerciseType (squat, bench, deadlift,
\* omitted) the score analyzeTechnique returns lies in [0, 1].
C1_ScoreInUnitInterval ==
    Done => 0 <= result.score /\ result.score <= 10000

\* a call whose penalties add up to more than the whole multiplier, under the
\* global penalty as well
C1_Witness ==
    /\ WithExercise /\ GateOpen
    /\ LowCount > 3
    /\ PenaltySum(Engine.issues) >= 100

\* C2: if a required landmark of the selected side is absent or has confidence
\* < 0.5, the engine returns exactly the one "Cannot analyze" issue and the
\* multiplier 0.3, and none of the form checks contributes.
C2_Gate ==
    (WithExercise /\ ~GateOpen) =>
        /\ Engine = [issues |-> <<GateIssue(exerciseType)>>, scoreMultiplier |-> 30]
        /\ result.issues = ExpectedGlobalIssues \o <<GateIssue(exerciseType)>>

\* the gate fired for one landmark just below the threshold, the rest visible
C2_Witness ==
    /\ WithExercise /\ ~GateOpen
    /\ Cardinality({j \in RequiredJoints(exerciseType) :
                        ~Visible(SideRead \o "_" \o j)}) = 1
    /\ \E i \in 1..Len(keypoints) :
          /\ keypoints[i].confidence = 49
          /\ keypoints[i].class \in {SideRead \o "_" \o j : j \in RequiredJoints(exerciseType)}
    /\ result.issues = <<GateIssue(exerciseType)>>

\* C3: whenever the gate does not fire, the multiplier an engine returns is
\* >= 0.1 and <= 1.0, whatever combination of checks triggered.
C3_Floor ==
    (WithExercise /\ GateOpen) =>
        /\ Engine.scoreMultiplier >= 10
        /\ Engine.scoreMultiplier <= 100

\* checks whose penalties sum to more than 0.9 triggered together
C3_Witness ==
    /\ WithExercise /\ GateOpen
    /\ exerciseType = "bench"
    /\ PenaltySum(Engine.issues) > 90
    /\ Engine.scoreMultiplier = 10

\* C4: the global issue is appended and the base score is 0.8 instead of 1.0
\* if and only if strictly more than 3 of all supplied landmarks have
\* confidence strictly below 0.5.
C4_GlobalPenalty ==
    Done =>
        /\ (LowCount > 3) <=> (result.issues # <<>> /\ result.issues[1] = GlobalIssue)
        /\ \A i \in 2..Len(result.issues) : result.issues[i] # GlobalIssue
        /\ exerciseType = Omitted => result.score = (IF LowCount > 3 THEN 8000 ELSE 10000)
        /\ (WithExercise /\ LowCount > 3) =>
               result.score * 100 = 8000 * Engine.scoreMultiplier
        /\ (WithExercise /\ LowCount <= 3) =>
               result.score * 100 = 10000 * Engine.scoreMultiplier

\* exactly four landmarks below 0.5: the penalty fires
C4_Witness ==
    /\ Done /\ exerciseType = Omitted
    /\ LowCount = 4
    /\ result.issues = <<GlobalIssue>>
    /\ result.score = 8000

\* C5: with an exercise given, the final score is max(0, baseScore * multiplier)
\* with baseScore 1.0 or 0.8, and the issues are the global issue (if any)
\* followed by the engine's issues in the engine's order.
C5_Aggregation ==
    WithExercise =>
        /\ result.score = Max(0, (ExpectedBaseScore * Engine.scoreMultiplier) \div 100)
        /\ result.issues = ExpectedGlobalIssues \o Engine.issues

\* the global penalty and several form checks in one result
C5_Witness ==
    /\ WithExercise /\ GateOpen
    /\ LowCount > 3
    /\ Len(Engine.issues) >= 2
    /\ Engine.scoreMultiplier > 10
    /\ result.score * 100 = 8000 * Engine.scoreMultiplier

\* C6: without exerciseType no gate and no exercise check runs: the score is
\* exactly 1.0 or 0.8, the issues are empty or the global issue alone, and
\* sideProfile is still computed.
C6_Omitted ==
    (Done /\ exerciseType = Omitted) =>
        /\ \/ result.score = 10000 /\ result.issues = <<>>
           \/ result.score = 8000 /\ result.issues = <<GlobalIssue>>
        /\ result.sideProfile \in {"left", "right", "unknown"}

\* 5 of 8 landmarks below 0.5, none of the required landmarks of a squat usable
C6_Witness ==
    /\ Done /\ exerciseType = Omitted
    /\ Len(keypoints) = 8
    /\ LowCount = 5
    /\ result.score = 8000
    /\ result.issues = <<GlobalIssue>>

\* the landmarks of one side of the list, and the sum of their confidences
PrefixIndices(prefix) ==
    {i \in 1..Len(keypoints) : startsWith(keypoints[i].class, prefix)}
RECURSIVE SumOver(_)
SumOver(I) ==
    IF I = {} THEN 0
    ELSE LET i == CHOOSE k \in I : TRUE
         IN  keypoints[i].confidence + SumOver(I \ {i})
LeftN == Cardinality(PrefixIndices("left_"))
RightN == Cardinality(PrefixIndices("right_"))
\* (leftMean - rightMean) * LeftN * RightN, in hundredths
MeanGap == SumOver(PrefixIndices("left_")) * RightN - SumOver(PrefixIndices("right_")) * LeftN

\* the list with only its left_ and right_ landmarks, every position erased
SidesOnly(kps) ==
    LET sided == SelectSeq(kps, LAMBDA kp :
                     startsWith(kp.class, "left_") \/ startsWith(kp.class, "right_"))
    IN  [i \in 1..Len(sided) |-> [sided[i] EXCEPT !.x = 0, !.y = 0]]

swapPrefix(cls) ==
    IF startsWith(cls, "left_") THEN "right_" \o SubSeq(cls, 6, Len(cls))
    ELSE IF startsWith(cls, "right_") THEN "left_" \o SubSeq(cls, 7, Len(cls))
    ELSE cls
SwapSides(kps) == [i \in 1..Len(kps) |-> [kps[i] EXCEPT !.class = swapPrefix(@)]]
Mirror(sideProfile) ==
    CASE sideProfile = "left" -> "right"
      [] sideProfile = "right" -> "left"
      [] OTHER -> sideProfile

\* C8: exchanging every left_ prefix with right_ turns a sideProfile 'left'
\* into 'right', 'right' into 'left' and leaves 'unknown' unchanged.
C8_SideSymmetry ==
    Done => determineSideProfile(SwapSides(keypoints)) = Mirror(result.sideProfile)

\* a list seen from the left, with sides of different sizes, seen from the
\* right once exchanged
C8_Witness ==
    /\ Done
    /\ result.sideProfile = "left"
    /\ LeftN # RightN /\ RightN > 0
    /\ determineSideProfile(SwapSides(keypoints)) = "right"

\* C9: the mean of an empty left_ or right_ partition never reaches the
\* threshold comparison as an undefined (0/0) value, and with both partitions
\* empty the result is 'unknown'.
C9_EmptyPartitionExcluded ==
    Done =>
        /\ confidenceDiff(avgConfidence(leftSideKeypoints(keypoints)),
                          avgConfidence(rightSideKeypoints(keypoints))) # NaN
        /\ (LeftN = 0 /\ RightN = 0) => result.sideProfile = "unknown"

\* the list without the landmarks of one side
WithoutSide(kps, side) ==
    SelectSeq(kps, LAMBDA kp : ~startsWith(kp.class, side \o "_"))

\* C10: an engine reads the left_ landmarks only when sideProfile is 'left';
\* for 'right' and for 'unknown' it reads the right_ landmarks, so the left_
\* landmarks then change neither the gate outcome, the issues nor the
\* multiplier.
C10_SideDefault ==
    WithExercise =>
        /\ result.sideProfile # "left" =>
              LET onRight == exerciseAnalysis(WithoutSide(keypoints, "left"), "right",
                                              exerciseType)
              IN  /\ Engine = onRight
                  /\ result.issues = ExpectedGlobalIssues \o onRight.issues
                  /\ result.score * 100 = ExpectedBaseScore * onRight.scoreMultiplier
        /\ result.sideProfile = "left" =>
              Engine = exerciseAnalysis(WithoutSide(keypoints, "right"), "left",
                                        exerciseType)

\* side unknown, both sides usable, and the left side would have been judged
\* differently
C10_Witness ==
    /\ WithExercise /\ GateOpen
    /\ result.sideProfile = "unknown"
    /\ \A j \in RequiredJoints(exerciseType) : Visible("left_" \o j)
    /\ exerciseAnalysis(keypoints, "left", exerciseType) # Engine

----------------------------------------------------------------------------
(* C11..C20 *)

\* the fixed order of the checks of each engine
CheckOrder(ex) ==
    CASE ex = "squat" ->
            <<SquatToes, SquatKnees, SquatChest, SquatDepth, SquatWink, SquatHead>>
      [] ex = "deadlift" ->
            <<DeadliftBar, DeadliftHipsHigh, DeadliftHipsLow, DeadliftSpine,
              DeadliftKnees, DeadliftLookUp, DeadliftLookDown>>
      [] ex = "bench" ->
            <<BenchShrug, BenchWide, BenchTight, BenchWrist, BenchBarPath, BenchArch,
              BenchHead>>

NoDuplicates(seq) ==
    \A i, j \in 1..Len(seq) : i # j => seq[i] # seq[j]

\* the place of x in a sequence without duplicates, 0 if it is not there
Position(seq, x) ==
    IF \E i \in 1..Len(seq) : seq[i] = x
    THEN CHOOSE i \in 1..Len(seq) : seq[i] = x
    ELSE 0

\* s picks elements of order, in the order of order
InOrder(s, order) ==
    /\ \A i \in 1..Len(s) : Position(order, s[i]) > 0
    /\ \A i \in 1..(Len(s) - 1) : Position(order, s[i]) < Position(order, s[i + 1])

\* the issues of the result after the global issue
ExerciseIssues ==
    IF result.issues # <<>> /\ result.issues[1] = GlobalIssue
    THEN Tail(result.issues)
    ELSE result.issues

PersonKeypoints ==
    IF response.outputs = <<>> THEN <<>>
    ELSE LET person == find(response.outputs[1].predictions, "person")
         IN  IF person = Undefined THEN <<>> ELSE person.keypoints

Processed == pc = "done" /\ posture # NoResult

\* the landmarks the exercise requires on both sides
RequiredLandmarks(ex) ==
    {side \o "_" \o j : side \in Sides,
                        j \in IF ex = "bench" THEN {"shoulder", "elbow", "wrist"}
                              ELSE {"shoulder", "hip", "knee", "ankle"}}

\* absent entirely, or supplied with confidence <= 0.3
MissingLandmarks(ex) ==
    {cls \in RequiredLandmarks(ex) :
        LET kp == find(PersonKeypoints, cls)
        IN  kp = Undefined \/ kp.confidence <= 30}

\* more than 30% of the required landmarks are missing
TooManyMissing(ex) ==
    10 * Cardinality(MissingLandmarks(ex)) > 3 * Cardinality(RequiredLandmarks(ex))

\* C12: when more than 30% of the exercise's required landmarks are absent or
\* have confidence <= 0.3, the isGoodPosture decision of the caller is false,
\* whatever the score and the person-detection confidence are.
C12_MissingKeypointsForceBad ==
    (Processed /\ exerciseType \in ExerciseTypes /\ TooManyMissing(exerciseType))
        => posture.isGoodPosture = FALSE

FeedbackGiven == pc = "done" /\ feedback # NoResult

\* the first message of each exercise's first and second tier
FirstTierHead(ex) ==
    CASE ex = "squat" -> "Focus on the ankle -> knee -> hip -> chest alignment"
      [] ex = "deadlift" -> "Keep the bar path close to your body throughout the lift"
      [] ex = "bench" -> "Focus on shoulder -> elbow -> wrist -> bar path alignment"
SecondTierHead(ex) ==
    CASE ex = "squat" -> "Work on hip and ankle mobility to improve squat depth"
      [] ex = "deadlift" -> "Work on hip hinge mobility and posterior chain strength"
      [] ex = "bench" -> "Work on shoulder mobility and scapular stability"

\* C13: getExerciseSpecificFeedback depends only on the exercise and the
\* score: no message at score >= 0.8, the 3 messages of the first tier for
\* 0.6 <= score < 0.8, and the first tier followed by 2 more for score < 0.6;
\* any other result with the same score gets the same messages, whatever its
\* issues and sideProfile are.
C13_FeedbackTiers ==
    FeedbackGiven =>
        /\ result.score >= 8000 => feedback = <<>>
        /\ (result.score >= 6000 /\ result.score < 8000) =>
              /\ Len(feedback) = 3
              /\ feedback[1] = FirstTierHead(exerciseType)
        /\ result.score < 6000 =>
              /\ Len(feedback) = 5
              /\ feedback[1] = FirstTierHead(exerciseType)
              /\ feedback[4] = SecondTierHead(exerciseType)
              /\ \A other \in AnalysisResults :
                    (other.score >= 6000 /\ other.score < 8000) =>
                        SubSeq(feedback, 1, 3)
                            = getExerciseSpecificFeedback(exerciseType, other)
        /\ \A other \in AnalysisResults :
              other.score = result.score =>
                  getExerciseSpecificFeedback(exerciseType, other) = feedback

\* a result scored exactly 0.8 that carries issues: no message
C13_Witness ==
    /\ FeedbackGiven
    /\ result.score = 8000
    /\ result.issues # <<>>
    /\ feedback = <<>>

\* the issues that read the nose, and those that read the hip in the bench press
NoseIssues == {SquatHead, DeadliftLookUp, DeadliftLookDown, BenchHead}
BenchHipIssues == {BenchShrug, BenchArch}
AllIssues ==
    {GlobalIssue, SquatGateIssue, DeadliftGateIssue, BenchGateIssue}
    \cup UNION {{CheckOrder(ex)[i] : i \in 1..Len(CheckOrder(ex))} : ex \in ExerciseTypes}

Has(issues, issue) == \E k \in 1..Len(issues) : issues[k] = issue
Without(issues, set) == SelectSeq(issues, LAMBDA issue : issue \notin set)

\* the list with one more landmark, clearly visible
WithLandmark(kps, cls, p) == kps \o <<KeypointData(cls, 90, p)>>

Absent(cls) == find(keypoints, cls) = Undefined

\* C14: analyzeTechnique returns a result for every list (the empty list,
\* one side only, no nose, no hip); a list without the nose, or without the
\* hip in the bench press, gets the issues and the multiplier the same list
\* with that landmark gets, less the checks that read the landmark; a list
\* without a required landmark gets the gate outcome.
C14_AbsentLandmarks ==
    Done =>
        /\ result.score \in 0..10000
        /\ result.sideProfile \in {"left", "right", "unknown"}
        /\ \A i \in 1..Len(result.issues) : result.issues[i] \in AllIssues
        /\ (WithExercise /\ \E j \in RequiredJoints(exerciseType) :
                                Absent(SideRead \o "_" \o j)) =>
              Engine = [issues |-> <<GateIssue(exerciseType)>>, scoreMultiplier |-> 30]
        /\ (WithExercise /\ GateOpen /\ Absent("nose")) =>
              \A p \in NosePoints :
                  LET with == exerciseAnalysis(WithLandmark(keypoints, "nose", p),
                                               result.sideProfile, exerciseType)
                      others == Without(with.issues, NoseIssues)
                  IN  /\ Engine.issues = others
                      /\ Engine.scoreMultiplier = Max(10, 100 - PenaltySum(others))
        /\ (WithExercise /\ GateOpen /\ exerciseType = "bench"
              /\ Absent(SideRead \o "_hip")) =>
              \A p \in HipPoints :
                  LET with == exerciseAnalysis(
                                  WithLandmark(keypoints, SideRead \o "_hip", p),
                                  result.sideProfile, exerciseType)
                      others == Without(with.issues, BenchHipIssues)
                  IN  /\ Engine.issues = others
                      /\ Engine.scoreMultiplier = Max(10, 100 - PenaltySum(others))

\* a bench press analysed without nose and without hip that still finds
\* issues, where the hip and the nose would each have added one
C14_Witness ==
    /\ WithExercise /\ GateOpen /\ exerciseType = "bench"
    /\ Absent("nose") /\ Absent(SideRead \o "_hip")
    /\ Engine.issues # <<>>
    /\ \E p \in HipPoints :
          Has(exerciseAnalysis(WithLandmark(keypoints, SideRead \o "_hip", p),
                               result.sideProfile, exerciseType).issues, BenchArch)
    /\ \E p \in NosePoints :
          exerciseAnalysis(WithLandmark(keypoints, "nose", p), result.sideProfile,
                           exerciseType) # Engine

\* where a landmark of a class is moved to
Relocations(cls) == IF cls = "nose" THEN NosePoints ELSE HipPoints
Relocated(kps, i, p) == [kps EXCEPT ![i].x = p[1], ![i].y = p[2]]

\* C15: a landmark with confidence < 0.5 is never used for scoring (the
\* optional nose and the optional hip of the bench press included): moving
\* such a landmark changes neither the issues nor the multiplier of the
\* exercise engine.
C15_LowConfidenceUnused ==
    WithExercise =>
        \A i \in 1..Len(keypoints) :
            keypoints[i].confidence < 50 =>
                \A p \in Relocations(keypoints[i].class) :
                    exerciseAnalysis(Relocated(keypoints, i, p), result.sideProfile,
                                     exerciseType) = Engine

\* exactly the four right-side landmarks, on one vertical line, the ankle
\* lowest and the shoulder highest, all with confidence >= 0.5
StackedRight ==
    /\ Len(keypoints) = 4
    /\ \A kp \in {keypoints[i] : i \in 1..4} : kp.confidence >= 50
    /\ LET ankle == find(keypoints, "right_ankle")
           knee == find(keypoints, "right_knee")
           hip == find(keypoints, "right_hip")
           shoulder == find(keypoints, "right_shoulder")
       IN  /\ Undefined \notin {ankle, knee, hip, shoulder}
           /\ knee.x = ankle.x /\ hip.x = ankle.x /\ shoulder.x = ankle.x
           /\ ankle.y > knee.y /\ knee.y > hip.y /\ hip.y > shoulder.y

\* C17: a squat on a vertically stacked, fully extended stance given by the
\* four right-side landmarks alone (confidences >= 0.5, no nose) triggers
\* only the depth check: one issue, multiplier 0.9, score 0.9.
C17_StackedSquat ==
    (Done /\ exerciseType = "squat" /\ StackedRight) =>
        /\ result.issues = <<SquatDepth>>
        /\ Engine.scoreMultiplier = 90
        /\ result.score = 9000

\* the stance analysed as a squat with landmarks exactly at confidence 0.5
C17_Witness ==
    /\ Done /\ exerciseType = "squat" /\ StackedRight
    /\ \E i \in 1..4 : keypoints[i].confidence = 50
    /\ result.score = 9000

\* C18: whenever the gate does not fire, the multiplier of an engine is
\* max(0.1, 1.0 - S), S being the plain sum of the fixed penalties of the
\* checks whose issue was emitted; penalties add up, they are not multiplied.
C18_CumulativePenalties ==
    (WithExercise /\ GateOpen) =>
        Engine.scoreMultiplier = Max(10, 100 - PenaltySum(Engine.issues))

\* three or more checks triggered together and the floor not reached
C18_Witness ==
    /\ WithExercise /\ GateOpen
    /\ Len(Engine.issues) >= 3
    /\ Engine.scoreMultiplier > 10
    /\ Engine.scoreMultiplier = 100 - PenaltySum(Engine.issues)

\* the landmark of a joint on the side the engine reads
Read(j) == find(keypoints, SideRead \o "_" \o j)

\* C19: past the gate, the squat emits 'weight shifting to toes' iff
\* |knee.x - ankle.x| > 60, 'knees tracking too far forward' iff
\* knee.x > ankle.x + 80, and 'maintain neutral head position' iff the nose is
\* present and |nose.y - shoulder.y| > 100; the comparisons are strict.
C19_SquatCoordinateChecks ==
    (WithExercise /\ exerciseType = "squat" /\ GateOpen) =>
        LET nose == find(keypoints, "nose")
        IN  /\ Has(Engine.issues, SquatToes) <=> Abs(Read("knee").x - Read("ankle").x) > 60
            /\ Has(Engine.issues, SquatKnees) <=> Read("knee").x > Read("ankle").x + 80
            /\ Has(Engine.issues, SquatHead) <=>
                    (nose # Undefined /\ Abs(nose.y - Read("shoulder").y) > 100)

\* the knee exactly 60 in front of the ankle and the nose exactly 100 from the
\* shoulder: neither check triggers
C19_Witness ==
    /\ WithExercise /\ exerciseType = "squat" /\ GateOpen
    /\ ~Absent("nose")
    /\ Abs(Read("knee").x - Read("ankle").x) = 60
    /\ Abs(find(keypoints, "nose").y - Read("shoulder").y) = 100
    /\ ~Has(Engine.issues, SquatToes)
    /\ ~Has(Engine.issues, SquatHead)

\* C20: past the gate and with knee.y # ankle.y, the deadlift emits 'bar too
\* far from body' iff shoulder.x < ankle.x - 30, 'hips too high' iff r > 2.5
\* and 'hips too low' iff r < 0.8, where r = (hip.y - knee.y) / (knee.y -
\* ankle.y); the two ratio tests are independent and hold for either sign of
\* the denominator.  r > c is (num - c * den) * den > 0, taken ten times.
C20_DeadliftCoordinateChecks ==
    (WithExercise /\ exerciseType = "deadlift" /\ GateOpen
        /\ Read("knee").y # Read("ankle").y) =>
        LET num == Read("hip").y - Read("knee").y
            den == Read("knee").y - Read("ankle").y
        IN  /\ Has(Engine.issues, DeadliftBar) <=>
                    Read("shoulder").x < Read("ankle").x - 30
            /\ Has(Engine.issues, DeadliftHipsHigh) <=> (10 * num - 25 * den) * den > 0
            /\ Has(Engine.issues, DeadliftHipsLow) <=> (10 * num - 8 * den) * den < 0

\* the knee below the ankle (positive denominator), the ratio exactly 0.8 and
\* the shoulder exactly 30 behind the ankle: none of the three is emitted
C20_Witness ==
    /\ WithExercise /\ exerciseType = "deadlift" /\ GateOpen
    /\ Read("knee").y > Read("ankle").y
    /\ 10 * (Read("hip").y - Read("knee").y) = 8 * (Read("knee").y - Read("ankle").y)
    /\ Read("shoulder").x = Read("ankle").x - 30
    /\ ~Has(Engine.issues, DeadliftBar)
    /\ ~Has(Engine.issues, DeadliftHipsHigh)
    /\ ~Has(Engine.issues, DeadliftHipsLow)

----------------------------------------------------------------------------
(* C21..C29 *)

\* C21: the deadlift divides by knee.y - ankle.y without a guard.  Past the
\* gate with knee.y = ankle.y, 'hips too high' is emitted iff hip.y > knee.y
\* (+Infinity), 'hips too low' iff hip.y < knee.y (-Infinity), neither when
\* hip.y = knee.y (0 / 0); nothing is raised and the other checks run as
\* usual: the bar check decides as always and the multiplier is the floored
\* sum of all emitted penalties.
C21_DivideByZero ==
    (WithExercise /\ exerciseType = "deadlift" /\ GateOpen
        /\ Read("knee").y = Read("ankle").y) =>
        /\ Has(Engine.issues, DeadliftHipsHigh) <=> Read("hip").y > Read("knee").y
        /\ Has(Engine.issues, DeadliftHipsLow) <=> Read("hip").y < Read("knee").y
        /\ Has(Engine.issues, DeadliftBar) <=> Read("shoulder").x < Read("ankle").x - 30
        /\ InOrder(Engine.issues, CheckOrder("deadlift"))
        /\ Engine.scoreMultiplier = Max(10, 100 - PenaltySum(Engine.issues))
        /\ result.score = (ExpectedBaseScore * Engine.scoreMultiplier) \div 100

\* the knee level with the ankle and the hip below both: +Infinity > 2.5
C21_Witness ==
    /\ WithExercise /\ exerciseType = "deadlift" /\ GateOpen
    /\ Read("knee").y = Read("ankle").y
    /\ Read("hip").y > Read("knee").y
    /\ Has(Engine.issues, DeadliftHipsHigh)
    /\ ~Has(Engine.issues, DeadliftHipsLow)

\* C22: past the gate the bench press emits 'shoulders shrugged' iff the hip
\* is present and shoulder.y < hip.y - 150, 'wrist alignment' iff
\* |wrist.x - elbow.x| > 40, 'bar path' iff wrist.x < shoulder.x - 50,
\* 'back arch' iff the hip is present and |shoulder.x - hip.x| > 80, and
\* 'head on the bench' iff the nose is present and nose.y - shoulder.y > 50
\* (signed); the gate fires iff shoulder, elbow or wrist is not visible,
\* whatever the hip is.
C22_BenchCoordinateChecks ==
    (WithExercise /\ exerciseType = "bench") =>
        /\ Has(Engine.issues, BenchGateIssue) <=> ~GateOpen
        /\ GateOpen =>
              LET shoulder == Read("shoulder")
                  elbow == Read("elbow")
                  wrist == Read("wrist")
                  hip == Read("hip")
                  nose == find(keypoints, "nose")
              IN  /\ Has(Engine.issues, BenchShrug) <=>
                          (hip # Undefined /\ shoulder.y < hip.y - 150)
                  /\ Has(Engine.issues, BenchWrist) <=> Abs(wrist.x - elbow.x) > 40
                  /\ Has(Engine.issues, BenchBarPath) <=> wrist.x < shoulder.x - 50
                  /\ Has(Engine.issues, BenchArch) <=>
                          (hip # Undefined /\ Abs(shoulder.x - hip.x) > 80)
                  /\ Has(Engine.issues, BenchHead) <=>
                          (nose # Undefined /\ nose.y - shoulder.y > 50)

\* the hip exactly 80 to the side and the nose exactly 50 below the shoulder:
\* neither the arch nor the head check triggers
C22_Witness ==
    /\ WithExercise /\ exerciseType = "bench" /\ GateOpen
    /\ ~Absent("nose") /\ ~Absent(SideRead \o "_hip")
    /\ Abs(Read("shoulder").x - Read("hip").x) = 80
    /\ find(keypoints, "nose").y - Read("shoulder").y = 50
    /\ ~Has(Engine.issues, BenchArch)
    /\ ~Has(Engine.issues, BenchHead)

\* C23: when an exercise is given and its gate fires, the score is exactly 0.3
\* if at most 3 supplied landmarks have confidence < 0.5 and exactly 0.24
\* otherwise, and the issues are the global visibility issue (if it fired)
\* followed by the single 'Cannot analyze' issue.
C23_GateWithGlobalPenalty ==
    (WithExercise /\ ~GateOpen) =>
        /\ LowCount <= 3 =>
              /\ result.score = 3000
              /\ result.issues = <<GateIssue(exerciseType)>>
        /\ LowCount > 3 =>
              /\ result.score = 2400
              /\ result.issues = <<GlobalIssue, GateIssue(exerciseType)>>

\* a squat with eight landmarks, all at confidence 0.2: two issues, score 0.24
C23_Witness ==
    /\ WithExercise /\ exerciseType = "squat"
    /\ Len(keypoints) = 8
    /\ \A i \in 1..8 : keypoints[i].confidence = 20
    /\ result.issues = <<GlobalIssue, SquatGateIssue>>
    /\ result.score = 2400

\* C24: in the squat, past the gate, the knees-forward issue never appears
\* without the weight-shifting issue immediately before it, so a knee more
\* than 80 ahead of the ankle costs 0.45 in total.
C24_KneesForwardImpliesToes ==
    (WithExercise /\ exerciseType = "squat" /\ GateOpen) =>
        /\ \A i \in 1..Len(Engine.issues) :
              Engine.issues[i] = SquatKnees =>
                  i > 1 /\ Engine.issues[i - 1] = SquatToes
        /\ Read("knee").x > Read("ankle").x + 80 =>
              /\ Has(Engine.issues, SquatToes) /\ Has(Engine.issues, SquatKnees)
              /\ Engine.scoreMultiplier =
                    Max(10, 100 - 45 - PenaltySum(Without(Engine.issues,
                                                          {SquatToes, SquatKnees})))

\* the knee 81 ahead of the ankle and nothing else wrong: multiplier 0.55
C24_Witness ==
    /\ WithExercise /\ exerciseType = "squat" /\ GateOpen
    /\ Read("knee").x = Read("ankle").x + 81
    /\ Engine.issues = <<SquatToes, SquatKnees>>
    /\ Engine.scoreMultiplier = 55

Both(a, b) == Has(result.issues, a) /\ Has(result.issues, b)

\* C25: one evaluation never emits both 'hips too high' and 'hips too low',
\* never both 'look up' and 'look down', and never both 'elbows too wide' and
\* 'elbows too tight', also when the deadlift ratio divides by zero.
C25_OppositeChecksExclusive ==
    Done =>
        /\ ~Both(DeadliftHipsHigh, DeadliftHipsLow)
        /\ ~Both(DeadliftLookUp, DeadliftLookDown)
        /\ ~Both(BenchWide, BenchTight)

\* a deadlift with the ratio divided by zero and a nose: one issue of each
\* pair, not the other
C25_Witness ==
    /\ WithExercise /\ exerciseType = "deadlift" /\ GateOpen
    /\ Read("knee").y = Read("ankle").y
    /\ Read("hip").y # Read("knee").y
    /\ Has(result.issues, DeadliftHipsHigh) # Has(result.issues, DeadliftHipsLow)
    /\ Has(result.issues, DeadliftLookUp) # Has(result.issues, DeadliftLookDown)

\* C26: the score of analyzeTechnique is never 0 and never below 0.08, the
\* lowest base score 0.8 times the lowest multiplier 0.1, so the clamp
\* max(0, score) never changes the value.
C26_ScoreAtLeastFloor ==
    Done =>
        /\ result.score >= 800
        /\ WithExercise =>
              result.score = (ExpectedBaseScore * Engine.scoreMultiplier) \div 100
        /\ exerciseType = Omitted => result.score = ExpectedBaseScore

\* the lowest score: the visibility penalty with the multiplier at its floor
C26_Witness ==
    /\ WithExercise /\ GateOpen
    /\ LowCount > 3
    /\ PenaltySum(Engine.issues) >= 90
    /\ result.score = 800

\* the score analyzeKeypoints gives the landmarks of the response, as the sum
\* of its penalties reads in decimals
KeypointAnalysis == analyzeKeypoints(PersonKeypoints, exerciseType)

\* the confidence of the first 'person' prediction, 0 without one
PersonConfidence ==
    IF response.outputs = <<>> THEN 0
    ELSE LET person == find(response.outputs[1].predictions, "person")
         IN  IF person = Undefined THEN 0 ELSE person.confidence

\* C27: isGoodPosture is true iff the person confidence is > 0.7 and the
\* keypoint score is > 0.6, both strictly; without an output or a 'person'
\* prediction the confidence is 0 and isGoodPosture is false; whenever
\* isGoodPosture is true, detectedIssues is empty and feedback has exactly 2
\* messages, even when the keypoint analysis recorded issues.
C27_GoodPostureDecision ==
    Processed =>
        /\ posture.confidence = PersonConfidence
        /\ posture.isGoodPosture <=>
              (PersonConfidence > 70 /\ KeypointAnalysis.score > 60)
        /\ posture.isGoodPosture =>
              posture.detectedIssues = <<>> /\ Len(posture.feedback) = 2

\* the last n delivered results, newest first
LastDelivered(n) ==
    [i \in 1..n |-> delivered[Len(delivered) - i + 1]]

\* a step in which a request settled by failing
AnalysisFailed ==
    /\ inFlight' < inFlight
    /\ delivered' = delivered

(* C28: analysisHistory holds at most 10 entries, newest first, and equals the
   last min(n, 10) of the n results delivered through handleAnalysisResult; a
   failed analysis delivers nothing and leaves the history unchanged. *)
C28_HistoryLastTen ==
    /\ [](/\ Len(analysisHistory) <= 10
          /\ Len(analysisHistory) = (IF Len(delivered) < 10 THEN Len(delivered) ELSE 10)
          /\ analysisHistory = LastDelivered(Len(analysisHistory)))
    /\ [][AnalysisFailed =>
            /\ analysisHistory' = analysisHistory
            /\ analysisResultState' = analysisResultState
            /\ error' = AnalysisError]_vars

C28_Witness ==
    /\ Len(delivered) > 10
    /\ Len(analysisHistory) = 10
    /\ analysisHistory[1] = [id |-> Len(delivered)]
    /\ error = AnalysisError

\* a step in which analyzePosture was called
RequestStarted == inFlight' > inFlight

\* a step in which a request settled
RequestSettled == inFlight' < inFlight

(* C29: under any interleaving of Start/Stop Camera, Analyze clicks, the
   auto-analyze timer and request completions, no request is started while
   isAnalyzing is true (at most one is in flight), none is started while the
   stream is inactive, and every started request eventually sets isAnalyzing
   back to false, a failure setting error and leaving analysisResult unchanged. *)
C29_AnalysisLifecycle ==
    /\ [][RequestStarted => ~isAnalyzing /\ inFlight = 0 /\ isStreamActive]_vars
    /\ [](inFlight <= 1)
    /\ [][RequestSettled => ~isAnalyzing']_vars
    /\ [][AnalysisFailed =>
            error' = AnalysisError /\ analysisResultState' = analysisResultState]_vars
    /\ isAnalyzing ~> ~isAnalyzing

========================================================================
